---- MODULE Spec2Model ----
(***************************************************************************)
(* A model of the satellite_sim ray-traced scene: Camera (camera.py),      *)
(* OrbitSimulator (orbit.py), Planet (planet.py) and Scene (renderer.py).  *)
(*                                                                         *)
(* Numbers.  Lengths, colours and vector components are fixed-point        *)
(* integers, Scale units to 1.0.  Angles are integers in units of          *)
(* 2*pi/TwoPi.  Python's float arithmetic on angles rounds every result to *)
(* a fixed number of significant bits; RoundF keeps MantBits of them       *)
(* (IEEE doubles keep 53), round-half-even, so that the rounding inside    *)
(* float `%` is part of the model.                                         *)
(***************************************************************************)
EXTENDS Integers, Sequences, FiniteSets, TLC

VARIABLES
    camera,     \* the Camera
    camCall,    \* the last Camera call: its name, arguments and the camera before it
    pans,       \* number of pan calls made
    orbit,      \* the OrbitSimulator
    orbCall,    \* the last OrbitSimulator call and the simulator before it
    planet,     \* the Planet: config and heights
    seeds,      \* the seeds of the generate calls made, in order
    query,      \* the last radius_at_direction call and its result
    isect,      \* an _intersect_sphere call: its arguments and, once made, its result
    light,      \* the Scene's Light
    frame,      \* the last render call: its arguments, the body before it, its rays and buffer
    trace,      \* a _trace_ray call: its arguments and, once made, what it did
    nquery,     \* the last normal_at_direction call and its result
    job,        \* a render call in progress: what it read before its loops, the pixels
                \* traced so far, and the height grids their rays were traced on
    gen         \* a generate call in progress: its seed once heights is assigned unclipped

camVars == <<camera, camCall, pans>>

orbVars == <<orbit, orbCall>>

planetVars == <<planet, seeds, query>>

sideVars == <<trace, nquery, job, gen>>

renderVars == <<light, frame, sideVars>>

vars == <<camera, camCall, pans, orbit, orbCall, planet, seeds, query, isect, light, frame,
          trace, nquery, job, gen>>

-----------------------------------------------------------------------------
(* Fixed-point and float helpers *)

Scale == 10^3

MantBits == 9

Abs(x) == IF x < 0 THEN -x ELSE x

Min(a, b) == IF a < b THEN a ELSE b

Max(a, b) == IF a > b THEN a ELSE b

\* Python's max(a, b): the first argument unless the second is greater.
PyMax(a, b) == IF b > a THEN b ELSE a

\* np.clip(x, lo, hi)
Clip(x, lo, hi) == IF x < lo THEN lo ELSE IF x > hi THEN hi ELSE x

RECURSIVE Pow2Floor(_)
Pow2Floor(n) == IF n < 2 THEN 1 ELSE 2 * Pow2Floor(n \div 2)

\* Spacing of the floats around x.
Ulp(x) ==
    LET a == Abs(x)
    IN  IF a < 2^MantBits THEN 1 ELSE Pow2Floor(a) \div 2^(MantBits - 1)

\* The multiple of u nearest to x (ties to the even multiple).
RoundTo(x, u) ==
    LET q == x \div u
        r == x - q * u
    IN  IF 2 * r < u THEN q * u
        ELSE IF 2 * r > u THEN (q + 1) * u
        ELSE IF q % 2 = 0 THEN q * u ELSE (q + 1) * u

\* The float nearest to the exact value x (ties to even).
RoundF(x) == RoundTo(x, Ulp(x))

\* C fmod: the remainder with the sign of x.
Fmod(x, m) == IF x >= 0 THEN x % m ELSE -((-x) % m)

\* Python float x % m for m > 0: fmod, and a negative remainder gets m added
\* in float arithmetic (the sum is rounded).
PyMod(x, m) ==
    LET mod == Fmod(x, m)
    IN  IF mod < 0 THEN RoundF(mod + m) ELSE mod

\* 2 * math.pi, math.pi, math.pi / 2 in angle units.
TwoPi == 9 * 2^11

Pi == TwoPi \div 2

HalfPi == TwoPi \div 4

\* math.radians(d) for whole degrees d.
Radians(d) == (d * TwoPi) \div 360

\* sin at 0, 5, ..., 90 degrees, in Scale units.
SinTable ==
    <<0, 87, 174, 259, 342, 423, 500, 574, 643, 707,
      766, 819, 866, 906, 940, 966, 985, 996, 1000>>

TableStep == TwoPi \div 72

\* sin on [0, pi/2], linear between table entries.
SinQ(a) ==
    LET k == a \div TableStep
        f == a % TableStep
    IN  IF f = 0 THEN SinTable[k + 1]
        ELSE SinTable[k + 1] + ((SinTable[k + 2] - SinTable[k + 1]) * f) \div TableStep

\* math.sin
Sin(a) ==
    LET r == a % TwoPi
    IN  IF r <= HalfPi THEN SinQ(r)
        ELSE IF r <= Pi THEN SinQ(Pi - r)
        ELSE IF r <= Pi + HalfPi THEN -SinQ(r - Pi)
        ELSE -SinQ(TwoPi - r)

\* math.cos
Cos(a) == Sin(a + HalfPi)

RECURSIVE SqrtIter(_, _, _)
SqrtIter(n, lo, hi) ==
    IF lo >= hi THEN lo
    ELSE LET mid == (lo + hi + 1) \div 2
         IN  IF mid * mid <= n THEN SqrtIter(n, mid, hi) ELSE SqrtIter(n, lo, mid - 1)

\* The integer square root of n >= 0.
ISqrt(n) == SqrtIter(n, 0, IF n < 10^6 THEN 10^3 ELSE 46340)

\* math.sqrt on a fixed-point value.
Sqrt(x) == ISqrt(x * Scale)

\* np.linalg.norm; long vectors are measured on a coarser grid to stay
\* within the integer range.
Norm(v) ==
    LET m == Max(Abs(v[1]), Max(Abs(v[2]), Abs(v[3])))
        w == <<v[1] \div 64, v[2] \div 64, v[3] \div 64>>
    IN  IF m <= 26000 THEN ISqrt(v[1] * v[1] + v[2] * v[2] + v[3] * v[3])
        ELSE 64 * ISqrt(w[1] * w[1] + w[2] * w[2] + w[3] * w[3])

\* atan at 0, 1/8, ..., 1 in angle units.
AtanTable == <<0, 365, 719, 1052, 1360, 1639, 1888, 2109, 2304>>

\* atan on [0, 1], linear between table entries.
Atan(q) ==
    LET step == Scale \div 8
        k == q \div step
        f == q % step
    IN  IF f = 0 THEN AtanTable[k + 1]
        ELSE AtanTable[k + 1] + ((AtanTable[k + 2] - AtanTable[k + 1]) * f) \div step

\* math.atan2, in (-pi, pi].  A float result is never rounded to zero: the
\* angle of a non-zero y keeps the sign of y however small it is.
Atan2(y, x) ==
    LET ax == Abs(x)
        ay == Abs(y)
        base == IF ay <= ax THEN Atan((ay * Scale) \div ax)
                ELSE HalfPi - Atan((ax * Scale) \div ay)
        mag == IF x >= 0 THEN base ELSE Pi - base
    IN  IF y = 0 THEN (IF x < 0 THEN Pi ELSE 0)
        ELSE IF y > 0 THEN Max(1, mag) ELSE -Max(1, mag)

\* math.acos on [-1, 1], in [0, pi].
Acos(c) == Atan2(ISqrt(Scale * Scale - c * c), c)

\* exp(-x) at x = 0, 1/4, 2/4, ..., in Scale units.
ExpTable ==
    <<1000, 779, 607, 472, 368, 287, 223, 174, 135, 105, 82, 64, 50, 39, 30, 24,
      18, 14, 11, 9, 7, 5, 4, 3, 2, 2, 2, 1, 1, 1, 1, 0>>

\* np.exp(-x) for x >= 0, linear between table entries.
ExpNeg(x) ==
    LET step == Scale \div 4
        k == x \div step
        f == x % step
    IN  IF k >= 31 THEN 0
        ELSE ExpTable[k + 1] + ((ExpTable[k + 2] - ExpTable[k + 1]) * f) \div step

\* An angle in fixed-point radians.
ToRadians(a) == (a * 6283) \div TwoPi

\* Fixed-point product.
Mul(a, b) == (a * b) \div Scale

\* 3-vectors
VAdd(u, v) == <<u[1] + v[1], u[2] + v[2], u[3] + v[3]>>

VSub(u, v) == <<u[1] - v[1], u[2] - v[2], u[3] - v[3]>>

VScale(u, k) == <<Mul(u[1], k), Mul(u[2], k), Mul(u[3], k)>>

Dot(u, v) == (u[1] * v[1] + u[2] * v[2] + u[3] * v[3]) \div Scale

VNeg(u) == <<-u[1], -u[2], -u[3]>>

\* v / n; the zero vector, which no caller normalises, is left as is.
VDiv(v, n) ==
    IF n = 0 THEN v
    ELSE <<(v[1] * Scale) \div n, (v[2] * Scale) \div n, (v[3] * Scale) \div n>>

VNormalize(v) == VDiv(v, Norm(v))

Square(x) == Mul(x, x)

\* x ** n for n a power of two, by squaring.
RECURSIVE Pow(_, _)
Pow(x, n) == IF n <= 1 THEN x ELSE Square(Pow(x, n \div 2))

\* math.tan
Tan(a) == (Sin(a) * Scale) \div Cos(a)

\* np.cross
Cross(u, v) ==
    <<(u[2] * v[3] - u[3] * v[2]) \div Scale,
      (u[3] * v[1] - u[1] * v[3]) \div Scale,
      (u[1] * v[2] - u[2] * v[1]) \div Scale>>

-----------------------------------------------------------------------------
(* camera.py: Camera *)

\* The dataclass defaults: distance 6.0, yaw 0.0, pitch radians(20), target 0.
Camera_default ==
    [distance |-> 6 * Scale, yaw |-> 0, pitch |-> Radians(20), target |-> <<0, 0, 0>>]

Camera_forward(c) ==
    LET cos_pitch == Cos(c.pitch)
    IN  <<Mul(Cos(c.yaw), cos_pitch), Mul(Sin(c.yaw), cos_pitch), Sin(c.pitch)>>

Camera_right(c) == Cross(Camera_forward(c), <<0, 0, Scale>>)

Camera_up(c) == Cross(Camera_right(c), Camera_forward(c))

Camera_position(c) == VSub(c.target, VScale(Camera_forward(c), c.distance))

Camera_orbit(c, d_yaw, d_pitch) ==
    [c EXCEPT !.yaw = PyMod(RoundF(c.yaw + d_yaw), TwoPi),
              !.pitch = Clip(RoundF(c.pitch + d_pitch), Radians(-80), Radians(80))]

\* factor is the rational num / den.
Camera_zoom(c, num, den) ==
    [c EXCEPT !.distance = Clip((c.distance * num) \div den, (3 * Scale) \div 2, 50 * Scale)]

Camera_pan(c, dx, dy) ==
    LET right == Camera_right(c)
        up == <<0, 0, Scale>>
    IN  [c EXCEPT !.target = VAdd(VAdd(c.target, VScale(right, dx)), VScale(up, dy))]

-----------------------------------------------------------------------------
(* orbit.py: OrbitSimulator *)

\* __init__(params): the parameters are kept as given, the angle starts at 0.
Orbit_init(radius, angular_velocity) ==
    [radius |-> radius, angular_velocity |-> angular_velocity, angle |-> 0]

\* Mutant: the update also lets the orbit decay and the body speed up.
Orbit_update_decaying(o, dtn) ==
    [o EXCEPT !.angle =
                PyMod(RoundF(o.angle + RoundF((o.angular_velocity * dtn) \div 2)), TwoPi),
              !.radius = o.radius - 1,
              !.angular_velocity = o.angular_velocity + 1]

\* dt is given in halves: dt = dtn / 2.
Orbit_update(o, dtn) ==
    [o EXCEPT !.angle =
        PyMod(RoundF(o.angle + RoundF((o.angular_velocity * dtn) \div 2)), TwoPi)]

Orbit_set_radius(o, radius) ==
    [o EXCEPT !.radius = PyMax(radius, (3 * Scale) \div 2)]

Orbit_set_speed(o, angular_velocity) ==
    [o EXCEPT !.angular_velocity = angular_velocity]

Orbit_set_angle(o, angle) == [o EXCEPT !.angle = PyMod(angle, TwoPi)]

Orbit_position(o) ==
    <<Mul(o.radius, Cos(o.angle)), Mul(o.radius, Sin(o.angle)), 0>>

-----------------------------------------------------------------------------
(* planet.py: Planet *)

\* The grid resolution and the seeds explored.
LatSteps == 3

LonSteps == 4

MaxSeed == 2

\* PlanetConfig: base_radius 2.0, height_scale 0.25; the grid resolution is
\* a parameter of the configuration.
PlanetConfig ==
    [base_radius |-> 2 * Scale, lat_steps |-> LatSteps, lon_steps |-> LonSteps,
     height_scale |-> Scale \div 4]

\* np.random.default_rng(seed): a generator whose stream is a function of the
\* seed alone (a linear congruential generator stands for numpy's PCG64).
RngModulus == 2^16 + 1

Rng_seed(seed) == (seed * 7919 + 104729) % RngModulus

Rng_next(s) == (75 * s + 74) % RngModulus

\* The first n raw draws after state s (the first half, then the rest from
\* the state the first half ends in).
RECURSIVE RngStream(_, _)
RngStream(s, n) ==
    IF n = 0 THEN <<>>
    ELSE IF n = 1 THEN <<Rng_next(s)>>
    ELSE LET head == RngStream(s, n \div 2)
         IN  head \o RngStream(head[Len(head)], n - n \div 2)

\* rng.uniform(lo, hi) and rng.integers(lo, hi) from one raw draw u.
Uniform(u, lo, hi) == lo + ((hi - lo) * u) \div RngModulus

Integers_draw(u, lo, hi) == lo + ((hi - lo) * u) \div RngModulus

\* np.linspace(-pi/2, pi/2, lat_steps)[i]
LatAt(cfg, i) ==
    IF cfg.lat_steps = 1 THEN -HalfPi ELSE -HalfPi + (i * Pi) \div (cfg.lat_steps - 1)

\* np.linspace(0, 2*pi, lon_steps, endpoint=False)[j]
LonAt(cfg, j) == (j * TwoPi) \div cfg.lon_steps

\* Mutant: the grid is allocated without being zeroed (np.empty) and holds
\* whatever was in memory.
Planet_init_uninitialised(cfg) ==
    [config |-> cfg,
     heights |-> [i \in 0..(cfg.lat_steps - 1) |-> [j \in 0..(cfg.lon_steps - 1) |->
                     2 * Scale + i + j]]]

\* __init__: heights = np.zeros((lat_steps, lon_steps))
Planet_init(cfg) ==
    [config |-> cfg,
     heights |-> [i \in 0..(cfg.lat_steps - 1) |-> [j \in 0..(cfg.lon_steps - 1) |-> 0]]]

\* One cell of _fbm_noise; draws 1..8 of the stream are the phases.
RECURSIVE FbmSum(_, _, _, _, _, _)
FbmSum(lat, lon, draws, octave, freq, amplitude) ==
    IF octave > 4 THEN 0
    ELSE LET phase_lat == Uniform(draws[2 * octave - 1], 0, TwoPi)
             phase_lon == Uniform(draws[2 * octave], 0, TwoPi)
         IN  Mul(amplitude, Mul(Sin(lat * freq + phase_lat), Cos(lon * freq + phase_lon)))
             + FbmSum(lat, lon, draws, octave + 1, freq * 2, amplitude \div 2)

Planet_fbm_noise(cfg, draws) ==
    [i \in 0..(cfg.lat_steps - 1) |-> [j \in 0..(cfg.lon_steps - 1) |->
        (FbmSum(LatAt(cfg, i), LonAt(cfg, j), draws, 1, 1, Scale) * 1000) \div 1875]]

Planet_angular_distance(lat, lon, center_lat, center_lon) ==
    LET d_lat == lat - center_lat
        d_lon == lon - center_lon
        s_lat == Sin(d_lat \div 2)
        s_lon == Sin(d_lon \div 2)
        a == Mul(s_lat, s_lat) + Mul(Mul(Cos(lat), Cos(center_lat)), Mul(s_lon, s_lon))
    IN  2 * Atan2(Sqrt(a), Sqrt(Scale - a + Scale \div 10^6))

\* One cell of _crater_field: crater k uses draws 4k-3 .. 4k of those that
\* follow the count; the craters combine by np.minimum.
RECURSIVE CraterMin(_, _, _, _, _)
CraterMin(lat, lon, draws, k, count) ==
    IF k > count THEN 0
    ELSE LET center_lat == Uniform(draws[4 * k - 3], -HalfPi, HalfPi)
             center_lon == Uniform(draws[4 * k - 2], 0, TwoPi)
             radius == Uniform(draws[4 * k - 1], Scale \div 20, (18 * Scale) \div 100)
             depth == Uniform(draws[4 * k], -Scale \div 2, -Scale \div 10)
             dist == ToRadians(Planet_angular_distance(lat, lon, center_lat, center_lon))
             x == IF dist * dist >= 16 * radius * radius THEN 8 * Scale
                  ELSE (dist * dist * Scale) \div (2 * radius * radius)
             crater == Mul(depth, ExpNeg(x))
         IN  Min(CraterMin(lat, lon, draws, k + 1, count), crater)

Planet_crater_field(cfg, draws) ==
    LET count == Integers_draw(draws[1], 12, 24)
        rest == SubSeq(draws, 2, Len(draws))
    IN  [i \in 0..(cfg.lat_steps - 1) |-> [j \in 0..(cfg.lon_steps - 1) |->
            CraterMin(LatAt(cfg, i), LonAt(cfg, j), rest, 1, count)]]

\* The grid generate(seed) computes: 0.7 * fbm + 0.3 * craters, clipped.
Planet_new_heights(cfg, seed) ==
    LET draws == RngStream(Rng_seed(seed), 8 + 1 + 4 * 23)
        base_noise == Planet_fbm_noise(cfg, SubSeq(draws, 1, 8))
        crater_noise == Planet_crater_field(cfg, SubSeq(draws, 9, Len(draws)))
    IN  [i \in 0..(cfg.lat_steps - 1) |-> [j \in 0..(cfg.lon_steps - 1) |->
            Clip((base_noise[i][j] * 7 + crater_noise[i][j] * 3) \div 10,
                 -Scale, Scale)]]

\* The grid generate(seed) assigns first: 0.7 * fbm + 0.3 * craters, not yet
\* clipped.
Planet_unclipped_heights(cfg, seed) ==
    LET draws == RngStream(Rng_seed(seed), 8 + 1 + 4 * 23)
        base_noise == Planet_fbm_noise(cfg, SubSeq(draws, 1, 8))
        crater_noise == Planet_crater_field(cfg, SubSeq(draws, 9, Len(draws)))
    IN  [i \in 0..(cfg.lat_steps - 1) |-> [j \in 0..(cfg.lon_steps - 1) |->
            (base_noise[i][j] * 7 + crater_noise[i][j] * 3) \div 10]]

\* self.heights = np.clip(self.heights, -1.0, 1.0)
Planet_clip_heights(p) ==
    [p EXCEPT !.heights =
        [i \in 0..(p.config.lat_steps - 1) |-> [j \in 0..(p.config.lon_steps - 1) |->
            Clip(p.heights[i][j], -Scale, Scale)]]]

\* Planet_new_heights for the configuration and seeds in use, computed once.
NewHeightsMemo == [seed \in 0..MaxSeed |-> Planet_new_heights(PlanetConfig, seed)]

\* Planet_unclipped_heights likewise.
UnclippedHeightsMemo ==
    [seed \in 0..MaxSeed |-> Planet_unclipped_heights(PlanetConfig, seed)]

\* Mutant: generate patches the grid in place (heights += ...) instead of
\* replacing it.
Planet_generate_patching(p, seed) ==
    [p EXCEPT !.heights =
        [i \in 0..(p.config.lat_steps - 1) |-> [j \in 0..(p.config.lon_steps - 1) |->
            Clip(p.heights[i][j] + Planet_new_heights(p.config, seed)[i][j],
                 -Scale, Scale)]]]

\* generate(seed): the grid is computed from the seed and replaces heights.
Planet_generate(p, seed) ==
    [p EXCEPT !.heights =
        IF p.config = PlanetConfig /\ seed \in DOMAIN NewHeightsMemo
        THEN NewHeightsMemo[seed]
        ELSE Planet_new_heights(p.config, seed)]

\* heights[i, j]: numpy counts a negative index from the end and raises
\* IndexError outside the grid (ok = FALSE).
Heights_at(p, i, j) ==
    LET n == p.config.lat_steps
        m == p.config.lon_steps
        ii == IF i < 0 THEN i + n ELSE i
        jj == IF j < 0 THEN j + m ELSE j
    IN  IF ii \in 0..(n - 1) /\ jj \in 0..(m - 1)
        THEN [ok |-> TRUE, value |-> p.heights[ii][jj]]
        ELSE [ok |-> FALSE, value |-> 0]

\* direction -> (theta, phi)
Planet_theta(direction) ==
    Acos(Clip((direction[3] * Scale) \div Norm(direction), -Scale, Scale))

Planet_phi(direction) == PyMod(Atan2(direction[2], direction[1]), TwoPi)

\* base_radius * (1.0 + height_scale * heights[lat_idx, lon_idx])
Planet_radius_at_cell(p, lat_idx, lon_idx) ==
    LET height == Heights_at(p, lat_idx, lon_idx)
    IN  [ok |-> height.ok, lat_idx |-> lat_idx, lon_idx |-> lon_idx,
         radius |-> Mul(p.config.base_radius,
                        Scale + Mul(p.config.height_scale, height.value))]

\* Mutant: the longitude index is not reduced modulo lon_steps.
Planet_radius_at_direction_nowrap(p, direction) ==
    Planet_radius_at_cell(p,
        (Planet_theta(direction) * (p.config.lat_steps - 1)) \div Pi,
        (Planet_phi(direction) * p.config.lon_steps) \div TwoPi)

\* radius_at_direction: lat_idx = int(theta / pi * (lat_steps - 1)),
\* lon_idx = int(phi / (2 pi) * lon_steps) % lon_steps.
Planet_radius_at_direction(p, direction) ==
    Planet_radius_at_cell(p,
        (Planet_theta(direction) * (p.config.lat_steps - 1)) \div Pi,
        ((Planet_phi(direction) * p.config.lon_steps) \div TwoPi) % p.config.lon_steps)

\* The end of normal_at_direction: the unit normal bent against the height
\* gradient along the two tangents.
Planet_bent_normal(cfg, normal, tangent_lat, dh_dlat, dh_dlon) ==
    VNormalize(VSub(VSub(normal, VScale(tangent_lat, Mul(dh_dlat, cfg.height_scale))),
                    VScale(Cross(normal, tangent_lat), Mul(dh_dlon, cfg.height_scale))))

\* tangent_lat of the unit normal: its horizontal part, or the x axis when
\* that is shorter than 1e-5, normalised.
Planet_tangent_lat(flat, length) ==
    IF length <= (Scale - 1) \div 10^5 THEN <<Scale, 0, 0>> ELSE VDiv(flat, length)

\* The middle of normal_at_direction, from the fractional grid indices lat
\* and lon (in Scale units) and the unit normal: the four heights read and
\* the bilinear gradient.  ok is FALSE when a read raises IndexError.
Planet_normal_at_index(p, lat, lon, normal) ==
    LET cfg == p.config
        lat0 == lat \div Scale
        lon0 == lon \div Scale
        lat1 == Min(lat0 + 1, cfg.lat_steps - 1)
        lon1 == (lon0 + 1) % cfg.lon_steps
        u == lat - lat0 * Scale
        v == lon - lon0 * Scale
        h00 == Heights_at(p, lat0, lon0)
        h10 == Heights_at(p, lat1, lon0)
        h01 == Heights_at(p, lat0, lon1)
        h11 == Heights_at(p, lat1, lon1)
        dh_dlat == Mul(Scale - v, h10.value - h00.value) + Mul(v, h11.value - h01.value)
        dh_dlon == Mul(Scale - u, h01.value - h00.value) + Mul(u, h11.value - h10.value)
        flat == <<normal[1], normal[2], 0>>
    IN  [ok |-> h00.ok /\ h10.ok /\ h01.ok /\ h11.ok,
         lat0 |-> lat0, lon0 |-> lon0, lat1 |-> lat1, lon1 |-> lon1,
         normal |-> Planet_bent_normal(cfg, normal, Planet_tangent_lat(flat, Norm(flat)),
                                       dh_dlat, dh_dlon)]

\* normal_at_direction: lat = theta / pi * (lat_steps - 1) and
\* lon = phi / (2 pi) * lon_steps, lon0 = floor(lon) not reduced.
Planet_normal_at_direction(p, direction) ==
    Planet_normal_at_index(p,
        (Planet_theta(direction) * (p.config.lat_steps - 1) * Scale) \div Pi,
        (Planet_phi(direction) * p.config.lon_steps * Scale) \div TwoPi,
        VNormalize(direction))

-----------------------------------------------------------------------------
(* renderer.py: Scene *)

\* None
Miss == [hit |-> FALSE, t |-> 0, position |-> <<0, 0, 0>>]

\* The end of _intersect_sphere: None if t <= 1e-4 (Scale / 10^4), else the
\* hit (t, origin + direction * t).
Scene_sphere_hit(origin, direction, t) ==
    IF t <= Scale \div 10^4 THEN Miss
    ELSE [hit |-> TRUE, t |-> t, position |-> VAdd(origin, VScale(direction, t))]

\* Mutant: the far root is tried first.
Scene_sphere_root_far_first(b, sqrt_disc) ==
    IF -b + sqrt_disc <= Scale \div 10^4 THEN -b - sqrt_disc ELSE -b + sqrt_disc

\* t = -b - sqrt_disc, and t = -b + sqrt_disc if that is <= 1e-4.
Scene_sphere_root(b, sqrt_disc) ==
    IF -b - sqrt_disc <= Scale \div 10^4 THEN -b + sqrt_disc ELSE -b - sqrt_disc

\* _intersect_sphere from b and the discriminant on.
Scene_sphere_solve(origin, direction, b, discriminant) ==
    IF discriminant < 0 THEN Miss
    ELSE Scene_sphere_hit(origin, direction, Scene_sphere_root(b, Sqrt(discriminant)))

\* b = dot(oc, direction)
Scene_sphere_b(origin, direction, center) == Dot(VSub(origin, center), direction)

\* c = dot(oc, oc) - radius * radius
Scene_sphere_c(origin, center, radius) ==
    Dot(VSub(origin, center), VSub(origin, center)) - Mul(radius, radius)

\* discriminant = b * b - c
Scene_sphere_discriminant(b, c) == Mul(b, b) - c

\* _intersect_sphere
Scene_intersect_sphere(origin, direction, center, radius) ==
    Scene_sphere_solve(origin, direction, Scene_sphere_b(origin, direction, center),
        Scene_sphere_discriminant(Scene_sphere_b(origin, direction, center),
                                  Scene_sphere_c(origin, center, radius)))

\* Light: direction, intensity (the colour is never read).
Light_new(direction) == [direction |-> direction, intensity |-> (12 * Scale) \div 10]

\* RenderSettings(): the dataclass defaults.
RenderSettings_default ==
    [width |-> 640, height |-> 480, fov |-> Radians(60), max_distance |-> 100 * Scale,
     planet_tolerance |-> (5 * Scale) \div 1000, planet_steps |-> 128]

\* Scene.__init__
Scene_new(p, lgt) ==
    [planet |-> p, light |-> lgt, satellite_radius |-> Scale \div 4,
     planet_material |->
         [base_color |-> <<400, 550, 350>>, specular |-> 200, shininess |-> 32],
     satellite_material |->
         [base_color |-> <<800, 800, 850>>, specular |-> 400, shininess |-> 64],
     space_color |-> <<20, 20, 50>>]

\* The end of a pass of the loop of _march_planet: t += step, and the loop
\* is left when t > max_distance.
Scene_march_advance(settings, m, t) ==
    [m EXCEPT !.t = t, !.done = t > settings.max_distance, !.steps = m.steps + 1]

\* A pass from distance = radius - surface_radius on: the hit when
\* distance < planet_tolerance, else step = max(distance * 0.7, tolerance * 0.5).
Scene_march_distance(settings, m, position, distance) ==
    IF distance < settings.planet_tolerance
    THEN [m EXCEPT !.done = TRUE, !.hit = TRUE, !.position = position,
                   !.steps = m.steps + 1]
    ELSE Scene_march_advance(settings, m,
             m.t + PyMax((distance * 7) \div 10, settings.planet_tolerance \div 2))

\* A pass from radius = norm(position) on: t += 0.1 when radius < 1e-5.
Scene_march_radius(sc, settings, m, position, radius) ==
    IF radius <= (Scale - 1) \div 10^5
    THEN [m EXCEPT !.t = m.t + Scale \div 10, !.steps = m.steps + 1]
    ELSE Scene_march_distance(settings, m, position,
             radius - Planet_radius_at_direction(sc.planet, position).radius)

\* A pass from position = origin + direction * t on.
Scene_march_position(sc, settings, m, position) ==
    Scene_march_radius(sc, settings, m, position, Norm(position))

\* One pass of the loop of _march_planet on the loop state m.
Scene_march_step(sc, origin, direction, settings, m) ==
    IF m.done THEN m
    ELSE Scene_march_position(sc, settings, m, VAdd(origin, VScale(direction, m.t)))

\* n passes of the loop (the first half of them, then the rest).
RECURSIVE Scene_march_loop(_, _, _, _, _, _)
Scene_march_loop(sc, origin, direction, settings, m, n) ==
    IF m.done \/ n <= 0 THEN m
    ELSE IF n = 1 THEN Scene_march_step(sc, origin, direction, settings, m)
    ELSE Scene_march_loop(sc, origin, direction, settings,
             Scene_march_loop(sc, origin, direction, settings, m, n \div 2),
             n - n \div 2)

\* What _march_planet returns when the loop is left in state m: the hit
\* (t, position) or None, and the passes made.
Scene_march_result(m) ==
    IF m.hit THEN [hit |-> TRUE, t |-> m.t, position |-> m.position, steps |-> m.steps]
    ELSE [hit |-> FALSE, t |-> 0, position |-> <<0, 0, 0>>, steps |-> m.steps]

\* _march_planet
Scene_march_planet(sc, origin, direction, settings) ==
    Scene_march_result(
        Scene_march_loop(sc, origin, direction, settings,
            [t |-> 0, done |-> FALSE, hit |-> FALSE, position |-> <<0, 0, 0>>,
             steps |-> 0],
            settings.planet_steps))

Scene_is_shadowed_by_satellite(sc, point, sat_position, light_dir) ==
    Scene_intersect_sphere(VAdd(point, VScale(light_dir, Scale \div 100)), light_dir,
                           sat_position, sc.satellite_radius).hit

\* _is_shadowed_by_planet: the march runs under RenderSettings().
Scene_is_shadowed_by_planet(sc, point, light_dir) ==
    Scene_march_planet(sc, VAdd(point, VScale(light_dir, Scale \div 100)), light_dir,
                       RenderSettings_default).hit

\* color * (1 - 0.3 * haze) + sky_color * (0.15 * haze)
Scene_haze(color, haze) ==
    VAdd(VScale(color, Scale - (3 * haze) \div 10),
         VScale(<<100, 200, 400>>, (15 * haze) \div 100))

\* _apply_atmosphere: haze = clip(altitude / (base_radius * 0.5), 0, 1)
Scene_apply_atmosphere(sc, position, color) ==
    Scene_haze(color,
        Clip(((Norm(position) - sc.planet.config.base_radius) * Scale)
                 \div (sc.planet.config.base_radius \div 2), 0, Scale))

\* base_color * (ambient + diffuse * intensity) + specular_k * specular * intensity
Scene_final_color(material, ambient, diffuse, specular, intensity) ==
    LET gloss == Mul(Mul(material.specular, specular), intensity)
        lit == VScale(material.base_color, ambient + Mul(diffuse, intensity))
    IN  <<lit[1] + gloss, lit[2] + gloss, lit[3] + gloss>>

\* reflect = 2 * dot(normal, light_dir) * normal - light_dir
Scene_reflect(normal, light_dir, ndotl) == VSub(VScale(normal, 2 * ndotl), light_dir)

\* Mutant: the diffuse term ignores the shadow test.
Scene_lighting_unshadowed(material, lgt, ambient, shadowed, ndotl, rdotv) ==
    LET diffuse == PyMax(ndotl, 0)
        specular == IF shadowed THEN 0 ELSE Pow(PyMax(rdotv, 0), material.shininess)
    IN  [shadowed |-> shadowed, lit |-> ndotl > 0, diffuse |-> diffuse,
         specular |-> specular,
         color |-> Scene_final_color(material, ambient, diffuse, specular,
                                     lgt.intensity)]

\* The lighting shared by the two shading functions: diffuse and specular
\* are 0.0 in shadow, else max(dot(normal, light_dir), 0) and
\* max(dot(reflect, view_dir), 0) ** shininess.
Scene_lighting(material, lgt, ambient, shadowed, ndotl, rdotv) ==
    LET diffuse == IF shadowed THEN 0 ELSE PyMax(ndotl, 0)
        specular == IF shadowed THEN 0 ELSE Pow(PyMax(rdotv, 0), material.shininess)
    IN  [shadowed |-> shadowed, lit |-> ndotl > 0, diffuse |-> diffuse,
         specular |-> specular,
         color |-> Scene_final_color(material, ambient, diffuse, specular,
                                     lgt.intensity)]

\* The shading of a surface point from its normal and light_dir on.
Scene_shade(material, lgt, ambient, shadowed, normal, light_dir, view_dir) ==
    Scene_lighting(material, lgt, ambient, shadowed, Dot(normal, light_dir),
        Dot(Scene_reflect(normal, light_dir, Dot(normal, light_dir)), view_dir))

\* The record of a shaded ray: ok is FALSE when the shading raised.
Scene_shaded(ok, body, t, lighting, color) ==
    [ok |-> ok, body |-> body, t |-> t, shadowed |-> lighting.shadowed,
     lit |-> lighting.lit, diffuse |-> lighting.diffuse,
     specular |-> lighting.specular, color |-> color]

\* The end of _shade_planet_hit: _apply_atmosphere on the final colour.
Scene_shade_planet_atmosphere(sc, hit, ok, lighting) ==
    Scene_shaded(ok, "planet", hit.t, lighting,
                 Scene_apply_atmosphere(sc, hit.position, lighting.color))

\* The end of _shade_sphere_hit: the final colour.
Scene_shade_sphere_color(hit, lighting) ==
    Scene_shaded(TRUE, "satellite", hit.t, lighting, lighting.color)

\* _shade_planet_hit from the normal and light_dir on.
Scene_shade_planet_lit(sc, direction, hit, sat_position, n, light_dir) ==
    Scene_shade_planet_atmosphere(sc, hit, n.ok,
        Scene_shade(sc.planet_material, sc.light, (8 * Scale) \div 100,
            Scene_is_shadowed_by_satellite(sc, hit.position, sat_position, light_dir),
            n.normal, light_dir, VNeg(direction)))

\* _shade_planet_hit: ok is FALSE when normal_at_direction raises.
Scene_shade_planet_hit(sc, origin, direction, hit, sat_position) ==
    Scene_shade_planet_lit(sc, direction, hit, sat_position,
        Planet_normal_at_direction(sc.planet, hit.position),
        VNeg(VNormalize(sc.light.direction)))

\* _shade_sphere_hit from the normal and light_dir on.
Scene_shade_sphere_lit(sc, direction, hit, normal, light_dir) ==
    Scene_shade_sphere_color(hit,
        Scene_shade(sc.satellite_material, sc.light, (5 * Scale) \div 100,
            Scene_is_shadowed_by_planet(sc, hit.position, light_dir),
            normal, light_dir, VNeg(direction)))

\* _shade_sphere_hit: normal = (position - sat_position) / satellite_radius
Scene_shade_sphere_hit(sc, origin, direction, hit, sat_position) ==
    Scene_shade_sphere_lit(sc, direction, hit,
        VDiv(VSub(hit.position, sat_position), sc.satellite_radius),
        VNeg(VNormalize(sc.light.direction)))

\* The background: self.space_color.
Scene_space(sc) ==
    [ok |-> TRUE, body |-> "space", t |-> 0, shadowed |-> FALSE, lit |-> FALSE,
     diffuse |-> 0, specular |-> 0, color |-> sc.space_color]

\* Mutant: a planet hit is shaded whenever there is one.
Scene_resolve_hits_planet_first(sc, origin, direction, sat_position, sat_hit, planet_hit) ==
    IF planet_hit.hit
    THEN Scene_shade_planet_hit(sc, origin, direction, planet_hit, sat_position)
    ELSE IF sat_hit.hit
    THEN Scene_shade_sphere_hit(sc, origin, direction, sat_hit, sat_position)
    ELSE Scene_space(sc)

\* _trace_ray from the two hits on.
Scene_resolve_hits(sc, origin, direction, sat_position, sat_hit, planet_hit) ==
    IF ~planet_hit.hit /\ ~sat_hit.hit THEN Scene_space(sc)
    ELSE IF sat_hit.hit /\ (~planet_hit.hit \/ sat_hit.t < planet_hit.t)
    THEN Scene_shade_sphere_hit(sc, origin, direction, sat_hit, sat_position)
    ELSE IF planet_hit.hit
    THEN Scene_shade_planet_hit(sc, origin, direction, planet_hit, sat_position)
    ELSE Scene_space(sc)

\* _trace_ray
Scene_trace_ray(sc, origin, direction, sat_position, settings) ==
    Scene_resolve_hits(sc, origin, direction, sat_position,
        Scene_intersect_sphere(origin, direction, sat_position, sc.satellite_radius),
        Scene_march_planet(sc, origin, direction, settings))

\* normalize(forward + ndc_x * right + ndc_y * up)
Scene_ray_direction(cam, ndc_x, ndc_y) ==
    VNormalize(VAdd(VAdd(Camera_forward(cam), VScale(Camera_right(cam), ndc_x)),
                    VScale(Camera_up(cam), ndc_y)))

\* What the loops of render keep of a traced ray.
Scene_ray(sat_position, ndc_x, ndc_y, traced) ==
    [ok |-> traced.ok, sat_position |-> sat_position, ndc |-> <<ndc_x, ndc_y>>,
     body |-> traced.body, color |-> traced.color]

\* The ray through (ndc_x, ndc_y), traced against sat_position.
Scene_ray_at(sc, cam, settings, sat_position, ndc_x, ndc_y) ==
    Scene_ray(sat_position, ndc_x, ndc_y,
        Scene_trace_ray(sc, Camera_position(cam), Scene_ray_direction(cam, ndc_x, ndc_y),
                        sat_position, settings))

\* ndc_x = (2 * (x + 0.5) / width - 1) * tan_half_fov * aspect
Scene_ndc_x(settings, x) ==
    Mul(Mul(((2 * x + 1) * Scale) \div settings.width - Scale, Tan(settings.fov \div 2)),
        (settings.width * Scale) \div settings.height)

\* ndc_y = (1 - 2 * (y + 0.5) / height) * tan_half_fov
Scene_ndc_y(settings, y) ==
    Mul(Scale - ((2 * y + 1) * Scale) \div settings.height, Tan(settings.fov \div 2))

\* The ray of pixel (x, y), rows and columns counted from 0, traced against
\* sat_position.
Scene_pixel(sc, cam, settings, sat_position, x, y) ==
    Scene_ray_at(sc, cam, settings, sat_position, Scene_ndc_x(settings, x),
                 Scene_ndc_y(settings, y))

\* (np.clip(c, 0.0, 1.0) * 255).astype(np.uint8) on one channel
ToUint8(c) == (Clip(c, 0, Scale) * 255) \div Scale

\* The rays of pixels lo..hi in the order of the loops, row by row: pixel
\* number i (from 1) is column (i - 1) % width of row (i - 1) \div width.
RECURSIVE Scene_rays(_, _, _, _, _, _)
Scene_rays(sc, cam, settings, sat_position, lo, hi) ==
    IF lo > hi THEN <<>>
    ELSE IF lo = hi
    THEN <<Scene_pixel(sc, cam, settings, sat_position,
                       (lo - 1) % settings.width, (lo - 1) \div settings.width)>>
    ELSE Scene_rays(sc, cam, settings, sat_position, lo, (lo + hi) \div 2)
         \o Scene_rays(sc, cam, settings, sat_position, (lo + hi) \div 2 + 1, hi)

\* What the loops leave given every ray: the rays up to the first one that
\* raises, and the returned buffer image[y + 1][x + 1] when none does.
Scene_buffer(settings, all) ==
    LET bad == {i \in DOMAIN all : ~all[i].ok}
        last == IF bad = {} THEN Len(all) ELSE CHOOSE i \in bad : \A j \in bad : i <= j
    IN  [ok |-> bad = {},
         rays |-> SubSeq(all, 1, last),
         image |-> IF bad # {} THEN <<>>
                   ELSE [r \in 1..settings.height |-> [c \in 1..settings.width |->
                            [k \in 1..3 |->
                                ToUint8(all[(r - 1) * settings.width + c].color[k])]]]]

\* The loops of render, given which position the rays are traced against.
Scene_render_traced(sc, cam, settings, sat_position) ==
    Scene_buffer(settings, Scene_rays(sc, cam, settings, sat_position,
                                      1, settings.width * settings.height))

\* render with the position read after the body is advanced.
Scene_render_update_first(sc, cam, orb, settings, dtn) ==
    [orbit |-> Orbit_update(orb, dtn),
     out |-> Scene_render_traced(sc, cam, settings,
                                 Orbit_position(Orbit_update(orb, dtn)))]

\* render: the position is read, then the body is advanced, then the rays
\* are traced against the position read.
Scene_render(sc, cam, orb, settings, dtn) ==
    [orbit |-> Orbit_update(orb, dtn),
     out |-> Scene_render_traced(sc, cam, settings, Orbit_position(orb))]

\* The start of render, up to the loops: the camera read, image = zeros, the
\* body position read and the body advanced.
Scene_blank_ray(sat_position) ==
    [ok |-> TRUE, sat_position |-> sat_position, ndc |-> <<0, 0>>, body |-> "none",
     color |-> <<0, 0, 0>>]

Scene_render_begin(cam, orb, settings, dtn) ==
    [phase |-> "tracing", camera |-> cam, settings |-> settings, dt |-> dtn, pre |-> orb,
     sat_position |-> Orbit_position(orb), traced |-> {}, order |-> <<>>,
     rays |-> [i \in 1..(settings.width * settings.height) |->
                  Scene_blank_ray(Orbit_position(orb))],
     fields |-> {}, image |-> <<>>]

\* Mutant: the write of a pixel runs over into the next one.
Scene_write_pixel_smear(rays, i, ray) ==
    [j \in DOMAIN rays |-> IF j \in {i, i + 1} THEN ray ELSE rays[j]]

\* image[y, x] = color, for pixel number i = y * width + x + 1.
Scene_write_pixel(rays, i, ray) == [rays EXCEPT ![i] = ray]

\* One pass of the inner loop of render given the traced ray: the pixel is
\* written, and a ray that raised ends the call.
Scene_render_pixel(j, i, heights, ray) ==
    [j EXCEPT !.phase = IF ray.ok THEN "tracing" ELSE "raised",
              !.traced = j.traced \cup {i},
              !.order = Append(j.order, i),
              !.rays = Scene_write_pixel(j.rays, i, ray),
              !.fields = j.fields \cup {heights}]

\* The end of render: the buffer is clipped, scaled and returned.
Scene_render_end(j) ==
    [j EXCEPT !.phase = "done", !.image = Scene_buffer(j.settings, j.rays).image]

-----------------------------------------------------------------------------
(* Camera calls: any sequence of orbit, zoom and pan on the default camera *)

\* At most MaxPans pan calls are explored.
MaxPans == 1

DYaws == {-1, Radians(180)}

DPitches == {Radians(180), Radians(-100)}

\* <<num, den>>: 0.01, 100, 0, -1
ZoomFactors == {<<1, 100>>, <<100, 1>>, <<0, 1>>, <<-1, 1>>}

\* <<dx, dy>>
PanSteps == {<<Scale, 0>>, <<-Scale, Scale>>, <<0, -Scale>>}

NoCamCall == [op |-> "new", x |-> 0, y |-> 0, pre |-> Camera_default]

NoOrbCall == [op |-> "new", x |-> 0, pre |-> Orbit_init(3 * Scale, 0)]

NoQuery ==
    [direction |-> <<0, 0, 0>>,
     result |-> [ok |-> TRUE, lat_idx |-> 0, lon_idx |-> 0, radius |-> 0]]

CameraIdle == camera = Camera_default /\ camCall = NoCamCall /\ pans = 0

OrbitIdle == orbit = Orbit_init(3 * Scale, 0) /\ orbCall = NoOrbCall

PlanetIdle == planet = Planet_init(PlanetConfig) /\ seeds = <<>> /\ query = NoQuery

NoIsect ==
    [origin |-> <<0, 0, 0>>, direction |-> <<0, 0, Scale>>, center |-> <<0, 0, 0>>,
     radius |-> Scale, done |-> FALSE, result |-> Miss]

SphereIdle == isect = NoIsect

\* No render call made yet.
NoFrame ==
    [called |-> FALSE, ok |-> FALSE, settings |-> RenderSettings_default, dt |-> 0,
     pre |-> Orbit_init(3 * Scale, 0), rays |-> <<>>, image |-> <<>>]

\* No _trace_ray call under study.
NoTrace ==
    [origin |-> <<0, 0, 0>>, direction |-> <<Scale, 0, 0>>, sat_position |-> <<0, 0, 0>>,
     settings |-> RenderSettings_default, done |-> FALSE, march |-> Scene_march_result(
         [t |-> 0, done |-> FALSE, hit |-> FALSE, position |-> <<0, 0, 0>>, steps |-> 0]),
     result |-> Scene_space(Scene_new(Planet_init(PlanetConfig), Light_new(<<Scale, 0, 0>>)))]

\* No normal_at_direction call under study.
NoNQuery ==
    [called |-> FALSE, direction |-> <<0, 0, 0>>,
     result |-> [ok |-> TRUE, lat0 |-> 0, lon0 |-> 0, lat1 |-> 0, lon1 |-> 0,
                 normal |-> <<0, 0, 0>>]]

\* No render call in progress.
NoJob ==
    [phase |-> "idle", camera |-> Camera_default, settings |-> RenderSettings_default,
     dt |-> 0, pre |-> Orbit_init(3 * Scale, 0), sat_position |-> <<0, 0, 0>>,
     traced |-> {}, order |-> <<>>, rays |-> <<>>, fields |-> {}, image |-> <<>>]

\* No generate call in progress.
NoGen == [pc |-> "idle", seed |-> 0]

SideIdle == trace = NoTrace /\ nquery = NoNQuery /\ job = NoJob /\ gen = NoGen

RenderIdle == light = Light_new(<<Scale, 0, 0>>) /\ frame = NoFrame /\ SideIdle

Orbit(d_yaw, d_pitch) ==
    /\ camera' = Camera_orbit(camera, d_yaw, d_pitch)
    /\ camCall' = [op |-> "orbit", x |-> d_yaw, y |-> d_pitch, pre |-> camera]
    /\ UNCHANGED <<pans, orbVars, planetVars, isect, renderVars>>

Zoom(f) ==
    /\ camera' = Camera_zoom(camera, f[1], f[2])
    /\ camCall' = [op |-> "zoom", x |-> f[1], y |-> f[2], pre |-> camera]
    /\ UNCHANGED <<pans, orbVars, planetVars, isect, renderVars>>

Pan(dx, dy) ==
    /\ pans < MaxPans
    /\ pans' = pans + 1
    /\ camera' = Camera_pan(camera, dx, dy)
    /\ camCall' = [op |-> "pan", x |-> dx, y |-> dy, pre |-> camera]
    /\ UNCHANGED <<orbVars, planetVars, isect, renderVars>>

InitCamera ==
    /\ camera = Camera_default
    /\ camCall = NoCamCall
    /\ pans = 0
    /\ OrbitIdle
    /\ PlanetIdle
    /\ SphereIdle
    /\ RenderIdle

NextCamera ==
    \/ \E d_yaw \in DYaws, d_pitch \in DPitches : Orbit(d_yaw, d_pitch)
    \/ \E f \in ZoomFactors : Zoom(f)
    \/ \E d \in PanSteps : Pan(d[1], d[2])

SpecCamera == InitCamera /\ [][NextCamera]_vars

-----------------------------------------------------------------------------
(* OrbitSimulator calls on a body constructed from any parameters *)

InitRadii == {Scale, (3 * Scale) \div 2, 3 * Scale}

Radii == {0, Scale, 2 * Scale, 4 * Scale}

Speeds == {TwoPi, -HalfPi, -1}

\* dt in halves: 1.5, 1, -0.5
Dts == {3, 2, -1}

Angles == {-1, Pi, 3 * TwoPi + HalfPi, -Pi - HalfPi}

Update(dtn) ==
    /\ orbit' = Orbit_update(orbit, dtn)
    /\ orbCall' = [op |-> "update", x |-> dtn, pre |-> orbit]
    /\ UNCHANGED <<camVars, planetVars, isect, renderVars>>

SetRadius(r) ==
    /\ orbit' = Orbit_set_radius(orbit, r)
    /\ orbCall' = [op |-> "set_radius", x |-> r, pre |-> orbit]
    /\ UNCHANGED <<camVars, planetVars, isect, renderVars>>

SetSpeed(w) ==
    /\ orbit' = Orbit_set_speed(orbit, w)
    /\ orbCall' = [op |-> "set_speed", x |-> w, pre |-> orbit]
    /\ UNCHANGED <<camVars, planetVars, isect, renderVars>>

SetAngle(a) ==
    /\ orbit' = Orbit_set_angle(orbit, a)
    /\ orbCall' = [op |-> "set_angle", x |-> a, pre |-> orbit]
    /\ UNCHANGED <<camVars, planetVars, isect, renderVars>>

InitOrbit ==
    /\ \E r \in InitRadii, w \in Speeds :
          /\ orbit = Orbit_init(r, w)
          /\ orbCall = [op |-> "new", x |-> 0, pre |-> Orbit_init(r, w)]
    /\ CameraIdle
    /\ PlanetIdle
    /\ SphereIdle
    /\ RenderIdle

NextOrbit ==
    \/ \E dtn \in Dts : Update(dtn)
    \/ \E r \in Radii : SetRadius(r)
    \/ \E w \in Speeds : SetSpeed(w)
    \/ \E a \in Angles : SetAngle(a)

SpecOrbit == InitOrbit /\ [][NextOrbit]_vars

-----------------------------------------------------------------------------
(* Planet calls: generate with any seeds, and surface queries *)

\* At most MaxGens generate calls are explored, with seeds 0..MaxSeed.
MaxGens == 3

\* Directions queried: the axes and poles, diagonals, and directions just
\* below the positive x axis (longitude at the 0 / 2*pi boundary).
Directions ==
    {<<6000, -1, 0>>, <<6000, -1, 2000>>, <<1000, 0, 0>>, <<-1000, 0, 0>>,
     <<0, 1000, 0>>, <<0, -1000, 0>>, <<0, 0, 1000>>, <<0, 0, -1000>>,
     <<1000, 1000, 1000>>, <<-500, -500, 100>>, <<300, -400, -1200>>,
     <<-2000, 1, -1>>}

Generate(seed) ==
    /\ Len(seeds) < MaxGens
    /\ planet' = Planet_generate(planet, seed)
    /\ seeds' = Append(seeds, seed)
    /\ UNCHANGED <<query, camVars, orbVars, isect, renderVars>>

RadiusAt(direction) ==
    /\ query' = [direction |-> direction,
                 result |-> Planet_radius_at_direction(planet, direction)]
    /\ UNCHANGED <<planet, seeds, camVars, orbVars, isect, renderVars>>

InitPlanet ==
    /\ planet = Planet_init(PlanetConfig)
    /\ seeds = <<>>
    /\ query = NoQuery
    /\ CameraIdle
    /\ OrbitIdle
    /\ SphereIdle
    /\ RenderIdle

NextPlanet ==
    \/ \E seed \in 0..MaxSeed : Generate(seed)
    \/ \E direction \in Directions : RadiusAt(direction)

SpecPlanet == InitPlanet /\ [][NextPlanet]_vars

-----------------------------------------------------------------------------
(* _intersect_sphere on unit-direction rays and spheres *)

RayOrigins ==
    {<<0, 0, -10000>>, <<5000, 0, -10000>>, <<0, 0, 0>>, <<0, 0, 10000>>,
     <<1000, 0, -10000>>, <<0, 500, -3000>>, <<3000, 0, -4000>>, <<0, 0, -1000>>,
     <<-6000, 0, 0>>, <<600, 0, -5000>>}

\* Unit vectors that are exact in fixed point.
RayDirections ==
    {<<0, 0, 1000>>, <<0, 0, -1000>>, <<1000, 0, 0>>, <<600, 0, 800>>,
     <<-600, 0, 800>>, <<0, 600, 800>>}

\* <<center, radius>>: the unit sphere, the satellite (radius 0.25), a large one.
Spheres ==
    {<<<<0, 0, 0>>, 1000>>, <<<<3000, 0, 0>>, 250>>, <<<<0, 0, 2000>>, 3000>>}

IntersectSphere ==
    /\ ~isect.done
    /\ isect' = [isect EXCEPT
                   !.done = TRUE,
                   !.result = Scene_intersect_sphere(isect.origin, isect.direction,
                                                     isect.center, isect.radius)]
    /\ UNCHANGED <<camVars, orbVars, planetVars, renderVars>>

InitSphere ==
    /\ \E origin \in RayOrigins, direction \in RayDirections, sphere \in Spheres :
          isect = [origin |-> origin, direction |-> direction, center |-> sphere[1],
                   radius |-> sphere[2], done |-> FALSE, result |-> Miss]
    /\ CameraIdle
    /\ OrbitIdle
    /\ PlanetIdle
    /\ RenderIdle

NextSphere == IntersectSphere

SpecSphere == InitSphere /\ [][NextSphere]_vars

-----------------------------------------------------------------------------
(* render calls on a scene: frame after frame, with any settings and dt *)

\* Cameras reached by orbit and pan from the default one: the default view,
\* a level view along +x, and a level view along -x from just below the +x
\* axis, whose centre ray meets the surface on the 0 / 2*pi longitude seam.
RenderCameras ==
    {Camera_default,
     Camera_orbit(Camera_default, 0, Radians(-20)),
     Camera_pan(Camera_orbit(Camera_default, Pi, Radians(-20)), -1, 0)}

RenderSettingsSet ==
    {[RenderSettings_default EXCEPT !.width = 3, !.height = 1, !.fov = Radians(40)],
     [RenderSettings_default EXCEPT !.width = 1, !.height = 2, !.planet_steps = 16],
     [RenderSettings_default EXCEPT !.width = 2, !.height = 1,
                                    !.max_distance = 20 * Scale]}

RenderDts == {1, 2}

Render(settings, dtn) ==
    \E r \in {Scene_render(Scene_new(planet, light), camera, orbit, settings, dtn)} :
        /\ orbit' = r.orbit
        /\ frame' = [called |-> TRUE, ok |-> r.out.ok, settings |-> settings,
                     dt |-> dtn, pre |-> orbit, rays |-> r.out.rays,
                     image |-> r.out.image]
        /\ UNCHANGED <<camVars, orbCall, planetVars, isect, light, sideVars>>

InitRender ==
    /\ camera \in RenderCameras
    /\ camCall = NoCamCall
    /\ pans = 0
    /\ orbit = Orbit_init(3 * Scale, HalfPi)
    /\ orbCall = NoOrbCall
    /\ planet = Planet_generate(Planet_init(PlanetConfig), 1)
    /\ seeds = <<>>
    /\ query = NoQuery
    /\ SphereIdle
    /\ light = Light_new(<<Scale, 0, 0>>)
    /\ frame = NoFrame
    /\ SideIdle

NextRender == \E settings \in RenderSettingsSet, dtn \in RenderDts : Render(settings, dtn)

SpecRender == InitRender /\ [][NextRender]_vars

-----------------------------------------------------------------------------
(* _trace_ray on single rays: hit resolution, marching and shading *)

\* <<origin, direction>>, the directions unit vectors exact in fixed point:
\* towards the planet along the axes, past the body onto the planet, onto
\* the body from beside the planet, from the world origin, into space, and
\* onto the planet just below the +x axis.
TraceRays ==
    {<<<<-6000, 0, 0>>, <<1000, 0, 0>>>>,
     <<<<6000, -1, 0>>, <<-1000, 0, 0>>>>,
     <<<<-6000, 0, -3000>>, <<800, 0, 600>>>>,
     <<<<1800, 0, 1600>>, <<600, 0, -800>>>>,
     <<<<6000, 0, 0>>, <<-1000, 0, 0>>>>,
     <<<<0, 0, 0>>, <<1000, 0, 0>>>>,
     <<<<-6000, 0, 0>>, <<0, 0, 1000>>>>,
     <<<<0, -6000, 0>>, <<0, 1000, 0>>>>,
     <<<<0, 0, 6000>>, <<0, 0, -1000>>>>}

\* Positions of the body on its orbit of radius 3.
TraceSatPositions == {<<-3000, 0, 0>>, <<3000, 0, 0>>, <<0, 3000, 0>>}

\* Directions the light travels in.
TraceLights == {<<1000, 0, 0>>, <<-1000, 0, 0>>}

\* The default settings, and settings with a short reach, a reach shorter
\* than the 0.1 nudge, and a budget of two passes.
TraceSettings ==
    {RenderSettings_default,
     [RenderSettings_default EXCEPT !.max_distance = Scale \div 2],
     [RenderSettings_default EXCEPT !.max_distance = Scale \div 20],
     [RenderSettings_default EXCEPT !.planet_steps = 2]}

TracePlanets == {Planet_init(PlanetConfig), Planet_generate(Planet_init(PlanetConfig), 1)}

\* The _trace_ray call, with the result of the march it makes.
TraceRay ==
    /\ ~trace.done
    /\ \E sc \in {Scene_new(planet, light)} :
          trace' = [trace EXCEPT
                      !.done = TRUE,
                      !.march = Scene_march_planet(sc, trace.origin, trace.direction,
                                                   trace.settings),
                      !.result = Scene_trace_ray(sc, trace.origin, trace.direction,
                                                 trace.sat_position, trace.settings)]
    /\ UNCHANGED <<camVars, orbVars, planetVars, isect, light, frame, nquery, job, gen>>

InitTrace ==
    /\ \E ray \in TraceRays, sat_position \in TraceSatPositions,
          settings \in TraceSettings :
          trace = [NoTrace EXCEPT !.origin = ray[1], !.direction = ray[2],
                                  !.sat_position = sat_position, !.settings = settings]
    /\ planet \in TracePlanets
    /\ seeds = <<>>
    /\ query = NoQuery
    /\ \E direction \in TraceLights : light = Light_new(direction)
    /\ frame = NoFrame
    /\ nquery = NoNQuery
    /\ job = NoJob
    /\ gen = NoGen
    /\ CameraIdle
    /\ OrbitIdle
    /\ SphereIdle

NextTrace == TraceRay

SpecTrace == InitTrace /\ [][NextTrace]_vars

-----------------------------------------------------------------------------
(* The two direction queries of the planet on the same directions *)

\* Directions queried: Directions, and more around the poles, on the cell
\* borders and on both sides of the positive x axis.
CellDirections ==
    Directions \cup
    {<<6000, 1, 0>>, <<1, 0, 1000>>, <<0, -1, -1000>>, <<-1, 1000, 0>>,
     <<1000, -1000, 0>>, <<2000, -1, -2000>>}

CellPlanets == {Planet_init(PlanetConfig), Planet_generate(Planet_init(PlanetConfig), 1)}

NormalAt(direction) ==
    /\ nquery' = [called |-> TRUE, direction |-> direction,
                  result |-> Planet_normal_at_direction(planet, direction)]
    /\ UNCHANGED <<planetVars, camVars, orbVars, isect, light, frame, trace, job, gen>>

InitCells ==
    /\ planet \in CellPlanets
    /\ seeds = <<>>
    /\ query = NoQuery
    /\ CameraIdle
    /\ OrbitIdle
    /\ SphereIdle
    /\ RenderIdle

NextCells ==
    \/ \E direction \in CellDirections : RadiusAt(direction)
    \/ \E direction \in CellDirections : NormalAt(direction)

SpecCells == InitCells /\ [][NextCells]_vars

-----------------------------------------------------------------------------
(* render pixel by pixel, the pixels traced in any order *)

\* The largest width * height of the settings in use.
MaxPixels == 4

\* The body at the start of its orbit and after a second of it.
PixelOrbits ==
    {Orbit_init(3 * Scale, HalfPi), Orbit_update(Orbit_init(3 * Scale, HalfPi), 2)}

PixelSettings ==
    {[RenderSettings_default EXCEPT !.width = 2, !.height = 2, !.fov = Radians(40)],
     [RenderSettings_default EXCEPT !.width = 3, !.height = 1, !.fov = Radians(40)]}

RenderBegin(settings, dtn) ==
    /\ job.phase = "idle"
    /\ job' = Scene_render_begin(camera, orbit, settings, dtn)
    /\ orbit' = Orbit_update(orbit, dtn)
    /\ UNCHANGED <<camVars, orbCall, planetVars, isect, light, frame, trace, nquery, gen>>

RenderPixel(i) ==
    /\ job.phase = "tracing"
    /\ i \in DOMAIN job.rays
    /\ i \notin job.traced
    /\ \E ray \in {Scene_pixel(Scene_new(planet, light), job.camera, job.settings,
                               job.sat_position, (i - 1) % job.settings.width,
                               (i - 1) \div job.settings.width)} :
          job' = Scene_render_pixel(job, i, planet.heights, ray)
    /\ UNCHANGED <<camVars, orbVars, planetVars, isect, light, frame, trace, nquery, gen>>

RenderEnd ==
    /\ job.phase = "tracing"
    /\ job.traced = DOMAIN job.rays
    /\ job' = Scene_render_end(job)
    /\ UNCHANGED <<camVars, orbVars, planetVars, isect, light, frame, trace, nquery, gen>>

InitPixels ==
    /\ camera \in RenderCameras
    /\ camCall = NoCamCall
    /\ pans = 0
    /\ orbit \in PixelOrbits
    /\ orbCall = NoOrbCall
    /\ planet = Planet_generate(Planet_init(PlanetConfig), 1)
    /\ seeds = <<>>
    /\ query = NoQuery
    /\ SphereIdle
    /\ RenderIdle

NextPixels ==
    \/ \E settings \in PixelSettings, dtn \in RenderDts : RenderBegin(settings, dtn)
    \/ \E i \in 1..MaxPixels : RenderPixel(i)
    \/ RenderEnd

SpecPixels == InitPixels /\ [][NextPixels]_vars

-----------------------------------------------------------------------------
(* render, pixel by pixel in the order of its loops, while generate runs on
   another thread: generate assigns heights twice, and every trace reads
   planet.heights as it is when the trace runs.  A switch of thread inside
   the trace of one pixel is not modelled. *)

\* At most MaxConcurrentGens generate calls are explored.
MaxConcurrentGens == 1

ConcurrentSeeds == {1, 2}

RenderLoopPixel(i) ==
    /\ i = Cardinality(job.traced) + 1
    /\ RenderPixel(i)

\* self.heights = (base_noise * 0.7 + crater_noise * 0.3).astype(np.float32)
GenerateAssign(seed) ==
    /\ gen.pc = "idle"
    /\ Len(seeds) < MaxConcurrentGens
    /\ planet' = [planet EXCEPT !.heights = UnclippedHeightsMemo[seed]]
    /\ gen' = [pc |-> "assigned", seed |-> seed]
    /\ UNCHANGED <<seeds, query, camVars, orbVars, isect, light, frame, trace, nquery, job>>

\* self.heights = np.clip(self.heights, -1.0, 1.0)
GenerateClip ==
    /\ gen.pc = "assigned"
    /\ planet' = Planet_clip_heights(planet)
    /\ seeds' = Append(seeds, gen.seed)
    /\ gen' = [gen EXCEPT !.pc = "idle"]
    /\ UNCHANGED <<query, camVars, orbVars, isect, light, frame, trace, nquery, job>>

InitConcurrent ==
    /\ camera \in RenderCameras
    /\ camCall = NoCamCall
    /\ pans = 0
    /\ orbit = Orbit_init(3 * Scale, HalfPi)
    /\ orbCall = NoOrbCall
    /\ PlanetIdle
    /\ SphereIdle
    /\ RenderIdle

NextConcurrent ==
    \/ \E settings \in PixelSettings, dtn \in RenderDts : RenderBegin(settings, dtn)
    \/ \E i \in 1..MaxPixels : RenderLoopPixel(i)
    \/ RenderEnd
    \/ \E seed \in ConcurrentSeeds : GenerateAssign(seed)
    \/ GenerateClip

SpecConcurrent == InitConcurrent /\ [][NextConcurrent]_vars

-----------------------------------------------------------------------------
(* Claims *)

\* C6: after any sequence of orbit, zoom and pan calls on the default camera,
\* distance is in [1.5, 50], yaw is in [0, 2*pi) and pitch is in
\* [-80 degrees, 80 degrees].
C6_CameraClamped ==
    /\ (3 * Scale) \div 2 <= camera.distance /\ camera.distance <= 50 * Scale
    /\ 0 <= camera.yaw /\ camera.yaw < TwoPi
    /\ Radians(-80) <= camera.pitch /\ camera.pitch <= Radians(80)

\* C7: after any sequence of update, set_angle and set_speed calls the angle
\* lies in [0, 2*pi), and each update(dt) sets it to
\* (previous angle + angular_velocity * dt) mod 2*pi.
C7_AngleWrapped ==
    /\ 0 <= orbit.angle /\ orbit.angle < TwoPi
    /\ orbCall.op = "update" =>
          orbit.angle =
              RoundF(orbCall.pre.angle
                     + RoundF((orbCall.pre.angular_velocity * orbCall.x) \div 2)) % TwoPi

\* C8: in every state reachable from construction the radius is at least 1.5,
\* and set_radius(r) stores max(r, 1.5).
C8_RadiusAtLeastMin ==
    /\ orbit.radius >= (3 * Scale) \div 2
    /\ orbCall.op = "set_radius" => orbit.radius = Max(orbCall.x, (3 * Scale) \div 2)

\* C9: pan(dx, dy) sets target to target + right*dx + up*dy with right() and
\* up() of the camera evaluated before the update, and leaves distance, yaw
\* and pitch unchanged.
C9_PanAlongCameraBasis ==
    camCall.op = "pan" =>
        LET pre == camCall.pre
        IN  /\ camera.target =
                  VAdd(VAdd(pre.target, VScale(Camera_right(pre), camCall.x)),
                       VScale(Camera_up(pre), camCall.y))
            /\ camera.distance = pre.distance
            /\ camera.yaw = pre.yaw
            /\ camera.pitch = pre.pitch

\* C2: the grid left by generate(s) depends only on the seed and the grid
\* configuration: whatever generate calls came before, the grid equals the
\* one generate(s) leaves on a freshly constructed planet.
C2_GridDependsOnSeedOnly ==
    seeds # <<>> =>
        planet.heights
            = Planet_generate(Planet_init(planet.config), seeds[Len(seeds)]).heights

\* A generate call that follows two earlier calls, one with another seed.
C2_Witness ==
    /\ Len(seeds) >= 3
    /\ seeds[1] # seeds[3]
    /\ seeds[2] = seeds[3]

\* C3: in every state reachable from construction by generate calls, every
\* cell of the height grid is in [-1, 1].
C3_HeightsBounded ==
    \A i \in DOMAIN planet.heights : \A j \in DOMAIN planet.heights[i] :
        -Scale <= planet.heights[i][j] /\ planet.heights[i][j] <= Scale

\* A generated grid with relief on it.
C3_Witness ==
    /\ seeds # <<>>
    /\ \E i \in DOMAIN planet.heights : \E j \in DOMAIN planet.heights[i] :
          planet.heights[i][j] # 0

\* C4: for every non-zero direction and every generated grid,
\* radius_at_direction reads a cell inside the grid and returns a value in
\* [base_radius*(1-height_scale), base_radius*(1+height_scale)].
C4_RadiusInsideGridAndBounds ==
    query # NoQuery =>
        LET r == query.result
            cfg == planet.config
        IN  /\ r.ok
            /\ 0 <= r.lat_idx /\ r.lat_idx < cfg.lat_steps
            /\ 0 <= r.lon_idx /\ r.lon_idx < cfg.lon_steps
            /\ Mul(cfg.base_radius, Scale - cfg.height_scale) <= r.radius
            /\ r.radius <= Mul(cfg.base_radius, Scale + cfg.height_scale)

\* A query on a generated grid whose longitude wraps to exactly 2*pi.
C4_Witness ==
    /\ seeds # <<>>
    /\ query # NoQuery
    /\ Planet_phi(query.direction) = TwoPi
    /\ query.result.lon_idx = 0
    /\ query.result.radius # planet.config.base_radius

\* The roots of |origin + t*direction - center|^2 = radius^2 for a unit
\* direction, as the claim names them: b, b*b - c, and the entry and exit
\* parameters.
RayB(call) == Dot(VSub(call.origin, call.center), call.direction)

RayDisc(call) ==
    LET oc == VSub(call.origin, call.center)
    IN  Mul(RayB(call), RayB(call)) - (Dot(oc, oc) - Mul(call.radius, call.radius))

RayEntry(call) == -RayB(call) - Sqrt(RayDisc(call))

RayExit(call) == -RayB(call) + Sqrt(RayDisc(call))

Exceeds1e4(t) == t > Scale \div 10^4

\* C5: _intersect_sphere reports a miss when b*b - c is negative or no root
\* exceeds 1e-4, and otherwise the smallest root exceeding 1e-4 (the entry
\* point if it exceeds 1e-4, else the exit point) with the hit point
\* origin + direction*t, which lies on the sphere; the ray from (0,0,-10)
\* along (0,0,1) hits the unit sphere at t = 9, the ray from (5,0,-10) misses.
C5_SmallestRootBeyondEpsilon ==
    isect.done =>
        LET r == isect.result
            on_sphere == Abs(Norm(VSub(r.position, isect.center)) - isect.radius) <= 3
        IN  /\ ~r.hit <=> (RayDisc(isect) < 0
                           \/ (~Exceeds1e4(RayEntry(isect)) /\ ~Exceeds1e4(RayExit(isect))))
            /\ r.hit => /\ Exceeds1e4(r.t)
                        /\ r.t \in {RayEntry(isect), RayExit(isect)}
                        /\ \A root \in {RayEntry(isect), RayExit(isect)} :
                              Exceeds1e4(root) => r.t <= root
                        /\ r.position = VAdd(isect.origin, VScale(isect.direction, r.t))
                        /\ on_sphere
            /\ (isect.direction = <<0, 0, Scale>> /\ isect.center = <<0, 0, 0>>
                /\ isect.radius = Scale)
               => /\ isect.origin = <<0, 0, -10 * Scale>> => r.hit /\ r.t = 9 * Scale
                  /\ isect.origin = <<5 * Scale, 0, -10 * Scale>> => ~r.hit

\* A ray that starts inside a sphere and is given the exit point.
C5_Witness ==
    /\ isect.done
    /\ isect.result.hit
    /\ ~Exceeds1e4(RayEntry(isect))
    /\ isect.result.t = RayExit(isect)


\* C1: every render call traces all of its rays against the body position
\* read before the body is advanced, advances the body by dt exactly once,
\* and so starts from the position the previous call advanced to: in every
\* render step each ray's body position is the position of the body as the
\* step finds it, and the step leaves the body one update(dt) further.
C1_RaysTracedBeforeSingleAdvance ==
    [][/\ frame'.called
       /\ \A i \in DOMAIN frame'.rays :
              frame'.rays[i].sat_position = Orbit_position(orbit)
       /\ frame'.pre = orbit
       /\ orbit' = Orbit_update(orbit, frame'.dt)]_vars

\* A later render call, made after the body has moved, in which a ray hits
\* the body and the call moves the body again.
C1_Witness ==
    /\ frame.called
    /\ frame.ok
    /\ frame.pre.angle # 0
    /\ Orbit_position(frame.pre) # Orbit_position(orbit)
    /\ \E i \in DOMAIN frame.rays : frame.rays[i].body = "satellite"

\* The entry of the buffer computed from a traced channel.
ClipScaleTruncate(v) ==
    LET clipped == IF v < 0 THEN 0 ELSE IF v > Scale THEN Scale ELSE v
    IN  (clipped * 255) \div Scale

\* The buffer of the last call has height rows of width pixels of 3 entries,
\* each an integer in 0..255 computed from the traced channel of its ray, and
\* rows further down the buffer look further down the camera's up axis.
FrameShapeAndRange ==
    LET width == frame.settings.width
        height == frame.settings.height
    IN  /\ Len(frame.image) = height
        /\ Len(frame.rays) = height * width
        /\ \A r \in 1..height :
               /\ Len(frame.image[r]) = width
               /\ \A c \in 1..width :
                      /\ Len(frame.image[r][c]) = 3
                      /\ \A k \in 1..3 :
                             /\ frame.image[r][c][k] \in 0..255
                             /\ frame.image[r][c][k] =
                                    ClipScaleTruncate(frame.rays[(r - 1) * width + c].color[k])
        /\ \A r1, r2 \in 1..height :
               r1 < r2 => frame.rays[(r1 - 1) * width + 1].ndc[2]
                              > frame.rays[(r2 - 1) * width + 1].ndc[2]

\* C10: for any settings with width >= 1 and height >= 1, render returns a
\* buffer of exactly height x width x 3 entries, row 0 on top, every entry
\* an integer in [0, 255] got by clipping the traced channel to [0, 1],
\* scaling by 255 and truncating.
C10_RenderReturnsClippedBuffer ==
    frame.called => frame.ok /\ FrameShapeAndRange

\* The calls that return do return such a buffer.
ReturnedFrameShapeAndRange ==
    frame.called /\ frame.ok => FrameShapeAndRange


\* The traced call seen from outside: the scene, the two hit tests, the
\* point shaded and its normal, the unit direction to the light, and the
\* secondary ray from the point towards the light tested against the other
\* body.
TraceScene == Scene_new(planet, light)

TraceSatHit ==
    Scene_intersect_sphere(trace.origin, trace.direction, trace.sat_position,
                           TraceScene.satellite_radius)

TracePlanetHit ==
    Scene_march_planet(TraceScene, trace.origin, trace.direction, trace.settings)

TracePoint ==
    IF trace.result.body = "satellite" THEN TraceSatHit.position
    ELSE TracePlanetHit.position

TraceNormal ==
    IF trace.result.body = "satellite"
    THEN VDiv(VSub(TracePoint, trace.sat_position), TraceScene.satellite_radius)
    ELSE Planet_normal_at_direction(planet, TracePoint).normal

TraceLightDir == VNeg(VNormalize(light.direction))

TraceSecondaryOrigin == VAdd(TracePoint, VScale(TraceLightDir, Scale \div 100))

TraceOccluded ==
    IF trace.result.body = "satellite"
    THEN Scene_march_planet(TraceScene, TraceSecondaryOrigin, TraceLightDir,
                            RenderSettings_default).hit
    ELSE Scene_intersect_sphere(TraceSecondaryOrigin, TraceLightDir, trace.sat_position,
                                TraceScene.satellite_radius).hit

TraceShaded ==
    trace.done /\ trace.result.ok /\ trace.result.body \in {"planet", "satellite"}

\* C11: for a shaded hit on either body, diffuse > 0 exactly when the dot
\* product of the normal and the unit direction to the light is positive and
\* the secondary ray towards the light does not hit the other body;
\* otherwise diffuse is 0, and when the secondary ray hits the other body
\* specular is 0 too.
C11_DiffuseIffLitAndUnoccluded ==
    TraceShaded =>
        /\ trace.result.diffuse > 0 <=> (Dot(TraceNormal, TraceLightDir) > 0 /\ ~TraceOccluded)
        /\ trace.result.diffuse >= 0
        /\ TraceOccluded => trace.result.diffuse = 0 /\ trace.result.specular = 0

\* A hit on the body whose normal faces the light while the planet stands
\* between it and the light.
C11_Witness ==
    /\ TraceShaded
    /\ trace.result.body = "satellite"
    /\ Dot(TraceNormal, TraceLightDir) > 0
    /\ TraceOccluded
    /\ trace.result.diffuse = 0


TraceSphereShading ==
    Scene_shade_sphere_hit(TraceScene, trace.origin, trace.direction, TraceSatHit,
                           trace.sat_position)

TracePlanetShading ==
    Scene_shade_planet_hit(TraceScene, trace.origin, trace.direction, TracePlanetHit,
                           trace.sat_position)

\* C14: _trace_ray returns the background colour when neither the satellite
\* test nor the planet march reports a hit, the shading of the only hit when
\* exactly one does, and the shading of the hit with the smaller t when both
\* do.
C14_NearestHitShaded ==
    trace.done =>
        /\ (~TraceSatHit.hit /\ ~TracePlanetHit.hit) =>
              /\ trace.result.body = "space"
              /\ trace.result.color = TraceScene.space_color
        /\ (TraceSatHit.hit /\ ~TracePlanetHit.hit) => trace.result = TraceSphereShading
        /\ (~TraceSatHit.hit /\ TracePlanetHit.hit) => trace.result = TracePlanetShading
        /\ (TraceSatHit.hit /\ TracePlanetHit.hit /\ TraceSatHit.t < TracePlanetHit.t) =>
              trace.result = TraceSphereShading
        /\ (TraceSatHit.hit /\ TracePlanetHit.hit /\ TracePlanetHit.t < TraceSatHit.t) =>
              trace.result = TracePlanetShading

\* Both tests report a hit and the satellite is the nearer one.
C14_Witness ==
    /\ trace.done
    /\ TraceSatHit.hit /\ TracePlanetHit.hit
    /\ TraceSatHit.t < TracePlanetHit.t
    /\ trace.result.body = "satellite"
    /\ trace.result.color # TracePlanetShading.color


\* The signed distance of the point the march reported: its radial distance
\* minus the surface radius below it.
TraceMarchDistance ==
    Norm(trace.march.position)
        - Planet_radius_at_direction(planet, trace.march.position).radius

\* The march made at most planet_steps passes and reported a hit only at a
\* point whose signed distance is below the tolerance.
MarchWithinStepsAndTolerance ==
    trace.done =>
        /\ trace.march.steps <= trace.settings.planet_steps
        /\ trace.march.hit => TraceMarchDistance < trace.settings.planet_tolerance

\* C15: _march_planet performs at most planet_steps iterations, never reports
\* a hit at a parameter t greater than max_distance, and reports a hit only
\* at a point whose signed distance is below the tolerance, the path that
\* nudges t by 0.1 at the world origin included.
C15_MarchWithinBounds ==
    /\ MarchWithinStepsAndTolerance
    /\ trace.done /\ trace.march.hit => trace.march.t <= trace.settings.max_distance


\* C18: the planet march that tests whether a satellite hit is shadowed runs
\* under the settings passed to the call, the ones of the primary march: its
\* outcome is that of a march of the secondary ray with the call's
\* tolerance, planet_steps and max_distance.
C18_ShadowMarchUsesCallSettings ==
    (TraceShaded /\ trace.result.body = "satellite") =>
        trace.result.shadowed =
            Scene_march_planet(TraceScene, TraceSecondaryOrigin, TraceLightDir,
                               trace.settings).hit


\* C17: a render call changes only the body's angle: the camera's distance,
\* yaw, pitch and target, the height grid, the light, and the body's radius
\* and angular velocity are after the call what they were before it.
C17_RenderChangesOnlyAngle ==
    [][/\ camera' = camera
       /\ planet' = planet
       /\ light' = light
       /\ orbit'.radius = orbit.radius
       /\ orbit'.angular_velocity = orbit.angular_velocity]_vars

\* A render call has moved the body along its orbit.
C17_Witness ==
    /\ frame.called
    /\ orbit.angle # frame.pre.angle
    /\ orbit.radius = frame.pre.radius
    /\ orbit.angular_velocity = frame.pre.angular_velocity


\* The cell radius_at_direction reads for the direction of the last
\* normal_at_direction call.
CellOfRadius == Planet_radius_at_direction(planet, nquery.direction)

InGrid(lat_idx, lon_idx) ==
    /\ lat_idx \in 0 .. planet.config.lat_steps - 1
    /\ lon_idx \in 0 .. planet.config.lon_steps - 1

\* The four cells normal_at_direction reads lie inside the grid.
NormalCellsInGrid ==
    /\ InGrid(nquery.result.lat0, nquery.result.lon0)
    /\ InGrid(nquery.result.lat1, nquery.result.lon0)
    /\ InGrid(nquery.result.lat0, nquery.result.lon1)
    /\ InGrid(nquery.result.lat1, nquery.result.lon1)

\* C16: for every non-zero direction, the 0 / 2*pi longitude boundary and the
\* poles included, the base cell (lat0, lon0) of normal_at_direction is the
\* cell (lat_idx, lon_idx) of radius_at_direction, and the four cells
\* normal_at_direction reads lie inside the grid.
C16_CellsAgreeInsideGrid ==
    nquery.called =>
        /\ nquery.result.lat0 = CellOfRadius.lat_idx
        /\ nquery.result.lon0 = CellOfRadius.lon_idx
        /\ NormalCellsInGrid
        /\ nquery.result.ok

\* Away from a longitude of exactly 2*pi the two functions agree.
CellsAgreeOffSeam ==
    (nquery.called /\ Planet_phi(nquery.direction) # TwoPi) =>
        /\ nquery.result.lat0 = CellOfRadius.lat_idx
        /\ nquery.result.lon0 = CellOfRadius.lon_idx
        /\ NormalCellsInGrid
        /\ nquery.result.ok


\* The ray of pixel number i of the render call in progress, traced on the
\* scene as it is now against the position the call read before its loops.
JobPixel(i) ==
    Scene_pixel(Scene_new(planet, light), job.camera, job.settings, job.sat_position,
                (i - 1) % job.settings.width, (i - 1) \div job.settings.width)

\* The same call made in one piece, its pixels traced in the order of the
\* loops.
JobRendered == Scene_render(Scene_new(planet, light), job.camera, job.pre, job.settings,
                            job.dt).out

\* C13: within one render call the colour written to a pixel depends only on
\* the pixel and on what the call read before its loops, and tracing a pixel
\* writes that pixel only, so the image is the same for every order in which
\* the pixels are traced: whatever the order so far, each traced pixel holds
\* its own ray, each untraced pixel is untouched, and the call ends with the
\* image (or the exception) of the call made in loop order.
C13_ImageIndependentOfPixelOrder ==
    /\ \A i \in DOMAIN job.rays :
          job.rays[i] = IF i \in job.traced THEN JobPixel(i)
                        ELSE Scene_blank_ray(job.sat_position)
    /\ job.phase = "done" => JobRendered.ok /\ job.image = JobRendered.image
    /\ job.phase = "raised" => ~JobRendered.ok

\* A render call finished with its pixels traced last to first, two of them
\* differing in colour.
C13_Witness ==
    /\ job.phase = "done"
    /\ Len(job.order) > 2
    /\ \A k \in DOMAIN job.order : job.order[k] = Len(job.order) + 1 - k
    /\ job.image = JobRendered.image
    /\ \E i, k \in DOMAIN job.rays : job.rays[i].color # job.rays[k].color


\* The complete grids of a run: the one before any generate call and the
\* one each finished or running generate call leaves.
CompleteFields ==
    {Planet_init(PlanetConfig).heights}
        \cup {NewHeightsMemo[seeds[k]] : k \in DOMAIN seeds}
        \cup (IF gen.pc = "assigned" THEN {NewHeightsMemo[gen.seed]} ELSE {})

\* C12: when generate(seed) runs concurrently with a render call, every
\* surface height that call reads comes from one single field, the complete
\* grid before the regeneration or the complete grid after it: no read
\* observes an intermediate grid and no render mixes reads of two grids.
C12_RenderReadsOneField ==
    /\ job.fields \subseteq CompleteFields
    /\ Cardinality(job.fields) <= 1

====
